---------------------------- MODULE Spec2Model ----------------------------
(***************************************************************************)
(* Sitemap crawler (main.go): crawlSiteMap fetches the root sitemap,       *)
(* flattens it with extractURLsFromXML (recursive, one child at a time),   *)
(* then fans the page URLs out to workerCount workers over the buffered    *)
(* channel jobs and collects CrawlResults from the buffered channel        *)
(* results, which a closer goroutine closes after wg.Wait().               *)
(*                                                                         *)
(* The remote site is the environment.  A sitemap body is kept in the form *)
(* the two xml.Unmarshal calls see it after sanitizeXML: whether it is     *)
(* well-formed, the <loc> of its <url> children and the <loc> of its       *)
(* <sitemap> children (encoding/xml does not look at the root element's    *)
(* name, so one body can carry both kinds).  What a sitemap URL answers is *)
(* fixed per run (web); what a page URL answers is chosen at every fetch.  *)
(***************************************************************************)
EXTENDS Integers, Sequences, FiniteSets, Bags, TLC

VARIABLES
    web,            \* sitemap URL -> what makeRequest returns for it
    pc,             \* position of crawlSiteMap (the main goroutine)
    err,            \* the error crawlSiteMap returns to main ("none": nil)
    stack,          \* call stack of extractURLsFromXML, innermost frame last
    urls,           \* crawlSiteMap's urls
    log,            \* log lines of the discovery phase, in order
    i,              \* crawlSiteMap's spawn-loop variable i
    wg,             \* the sync.WaitGroup counter
    jobs,           \* buffer of the channel jobs
    jobsClosed,     \* close(jobs) has run
    results,        \* buffer of the channel results
    resultsClosed,  \* close(results) has run
    wk,             \* worker id -> position and locals of that goroutine
    feeder,         \* the goroutine of lines 259-264
    closer,         \* the goroutine of lines 266-269
    fetching,       \* log: "WORKER id FETCHING url" lines, counted per url
    responded,      \* log: page fetches that returned without error, per url
    emitted,        \* CrawlResults sent on results, counted
    reported,       \* log: "RESULT | ..." lines, counted per CrawlResult
    crashed,        \* a goroutine panicked (send on a closed channel)
    call            \* a function applied on its own: its argument, position
                    \* and locals ([fn |-> "none"] in the runs of the program)

vars == <<web, pc, err, stack, urls, log, i, wg, jobs, jobsClosed, results,
          resultsClosed, wk, feeder, closer, fetching, responded, emitted,
          reported, crashed, call>>

discoveryVars == <<web, pc, err, stack, urls, log>>
poolVars == <<i, wg, jobs, jobsClosed, results, resultsClosed, wk, feeder,
              closer, fetching, responded, emitted, reported, crashed>>

----------------------------------------------------------------------------
(* Bounds of the model *)

\* longest list of <url> entries, and of <sitemap> entries, in one body
MaxLocs == 3

\* longest byte string given to sanitizeXML byte by byte
MaxLen == 5

\* deepest nesting of extractURLsFromXML activations the model follows; the
\* code has no limit
MaxDepth == 4

\* most elements in the head of a document given to parseHTML
MaxHead == 2

\* most pieces ("&", "&amp;", "amp;", ...) of a byte string given to
\* sanitizeXML piece by piece
MaxPieces == 3

\* capacity of the channel jobs.  main.go:246 makes it 100; the model runs
\* the same protocol with a small buffer so that lists longer than the
\* buffer (a blocked feeder) are reached.
JobsCap == 1

\* capacity of the channel results (main.go:247 makes it 100), scaled alike
ResultsCap == 1

(* Program constants *)

\* line 250
workerCount == 5

----------------------------------------------------------------------------
(* Data *)

sitemapURL == "s0"
SitemapURLs == {"s0", "s1", "s2"}
PageURLs == {"p1", "p2"}

NoData == [wf |-> FALSE, urls |-> <<>>, sitemaps |-> <<>>]

\* what makeRequest returns for a sitemap: (body, _, _, err)
FetchErr(e) == [err |-> e, data |-> NoData]
FetchOK(d) == [err |-> "none", data |-> d]

SeqsUpTo(S, n) == UNION {[1..k -> S] : k \in 0..n}

RECURSIVE Concat(_)
Concat(ss) == IF ss = <<>> THEN <<>> ELSE Head(ss) \o Concat(Tail(ss))


----------------------------------------------------------------------------
(* Sitemap bodies the site can serve *)

\* the bodies a sitemap URL can serve: one that is not well-formed (both
\* xml.Unmarshal calls fail), urlsets (the empty one included), indexes, and
\* bodies that carry entries of both kinds
Bodies(children) ==
    {NoData}
    \cup {[wf |-> TRUE, urls |-> us, sitemaps |-> <<>>] :
            us \in SeqsUpTo(PageURLs, MaxLocs)}
    \cup {[wf |-> TRUE, urls |-> <<>>, sitemaps |-> sm] :
            sm \in SeqsUpTo(children, MaxLocs)}
    \cup {[wf |-> TRUE, urls |-> <<p>>, sitemaps |-> <<c>>] :
            p \in PageURLs, c \in children}

\* makeRequest's possible returns for a sitemap URL whose body may list
\* the sitemap URLs in children
Answers(children) ==
    {FetchErr("network"), FetchErr("decode")} \cup
    {FetchOK(d) : d \in Bodies(children)}

\* sitemap URLs a body served at u may refer to: the sites of this set are
\* finite trees (no sitemap lists itself, directly or transitively)
ChildrenOf(u) ==
    CASE u = "s0" -> {"s1", "s2"}
      [] u = "s1" -> {"s2"}
      [] OTHER -> {}

Site(a0, a1, a2) == [u \in SitemapURLs |->
                        CASE u = "s0" -> a0 [] u = "s1" -> a1 [] OTHER -> a2]

Webs == {Site(a0, a1, a2) : a0 \in Answers(ChildrenOf("s0")),
                            a1 \in Answers(ChildrenOf("s1")),
                            a2 \in Answers(ChildrenOf("s2"))}

----------------------------------------------------------------------------
(* makeRequest, lines 55-96 *)

\* the (body, err) a sitemap fetch returns; ct and status are discarded by
\* both callers (lines 123 and 233)
makeRequest(url) == web[url]

(* extractURLsFromXML, lines 104-142 *)

\* IsURLSet refusing a body that also has child-sitemap entries
IsURLSet_OnlyPure(data) ==
    data.wf /\ Len(data.urls) > 0 /\ Len(data.sitemaps) = 0

\* lines 107-108: xml.Unmarshal(data, &us) == nil && len(us.URLs) > 0
IsURLSet(data) == data.wf /\ Len(data.urls) > 0

\* IsIndex without the len(si.Sitemaps) > 0
IsIndex_AnyWellFormed(data) == data.wf

\* lines 116-117: xml.Unmarshal(data, &si) == nil && len(si.Sitemaps) > 0
IsIndex(data) == data.wf /\ Len(data.sitemaps) > 0

\* URLSetLocs collecting the entries back to front
URLSetLocs_Reversed(data) ==
    [k \in 1..Len(data.urls) |-> data.urls[Len(data.urls) + 1 - k]]

\* lines 110-113: the Loc of every us.URLs entry, in order
URLSetLocs(data) == [k \in 1..Len(data.urls) |-> data.urls[k]]

\* AppendURLs putting the child's urls in front
AppendURLs_Prepend(acc, childURLs) == childURLs \o acc

\* line 136: urls = append(urls, childURLs...)
AppendURLs(acc, childURLs) == acc \o childURLs

\* a new activation of extractURLsFromXML(data)
Frame(data) == [data |-> data, pc |-> "decode", i |-> 1, urls |-> <<>>]

Top == stack[Len(stack)]
Caller == stack[Len(stack) - 1]
SetTop(f) == [stack EXCEPT ![Len(stack)] = f]

Line(ev, arg) == [ev |-> ev, arg |-> arg]

\* SkipChild leaving the loop (break) instead of continuing
SkipChild_Break(f) ==
    [f EXCEPT !.pc = "loop", !.i = Len(f.data.sitemaps) + 1]

\* lines 124-127 and 131-134: a failed child is logged and the loop continues
\* with the next child, keeping what was collected
SkipChild(f) == [f EXCEPT !.pc = "loop", !.i = @ + 1]

\* lines 130-136 in the calling activation f, when the recursive call
\* returns (childURLs, e)
AfterChild(f, childURLs, e) ==
    IF e # "none"
    THEN SkipChild(f)
    ELSE [f EXCEPT !.pc = "loop", !.i = @ + 1,
                   !.urls = AppendURLs(@, childURLs)]

\* Return with crawlSiteMap not checking the error of line 240
Return_IgnoreErr(u, e, lines) ==
    IF Len(stack) > 1
    THEN /\ stack' = [k \in 1..(Len(stack) - 1) |->
                        IF k = Len(stack) - 1
                        THEN AfterChild(Caller, u, e) ELSE stack[k]]
         /\ log' = log \o lines
         /\ UNCHANGED <<pc, err, urls>>
    ELSE /\ stack' = <<>>
         /\ pc' = "spawn"
         /\ urls' = u
         /\ log' = log \o lines
         /\ UNCHANGED err

\* the innermost activation returns (u, e): to the activation that called it
\* (line 130), or to crawlSiteMap (lines 239-244)
Return(u, e, lines) ==
    IF Len(stack) > 1
    THEN /\ stack' = [k \in 1..(Len(stack) - 1) |->
                        IF k = Len(stack) - 1
                        THEN AfterChild(Caller, u, e) ELSE stack[k]]
         /\ log' = log \o lines \o
                   (IF e # "none"
                    THEN <<Line("CHILD PARSE FAILED",
                                Caller.data.sitemaps[Caller.i])>>
                    ELSE <<>>)
         /\ UNCHANGED <<pc, err, urls>>
    ELSE /\ stack' = <<>>
         /\ IF e # "none"
            THEN /\ pc' = "fatal"
                 /\ err' = e
                 /\ urls' = <<>>
                 /\ log' = log \o lines \o <<Line("FATAL ERROR", e)>>
            ELSE /\ pc' = "spawn"
                 /\ urls' = u
                 /\ log' = log \o lines \o <<Line("TOTAL URLS DISCOVERED", "")>>
                 /\ UNCHANGED err

\* lines 107-117 and 141: try the urlset shape, then the index shape
extract_Decode ==
    /\ pc = "resolve" /\ stack # <<>> /\ Top.pc = "decode"
    /\ IF IsURLSet(Top.data)
       THEN Return(URLSetLocs(Top.data), "none",
                   <<Line("SITEMAP TYPE: urlset", "")>>)
       ELSE IF IsIndex(Top.data)
       THEN /\ stack' = SetTop([Top EXCEPT !.pc = "loop"])
            /\ log' = Append(log, Line("SITEMAP TYPE: index", ""))
            /\ UNCHANGED <<pc, err, urls>>
       ELSE Return(<<>>, "unsupported", <<>>)
    /\ UNCHANGED <<web>>
    /\ UNCHANGED poolVars
    /\ UNCHANGED call

\* lines 119-120 and 138: next child of the index, or return what was
\* collected
extract_Loop ==
    /\ pc = "resolve" /\ stack # <<>> /\ Top.pc = "loop"
    /\ IF Top.i <= Len(Top.data.sitemaps)
       THEN /\ stack' = SetTop([Top EXCEPT !.pc = "sleep"])
            /\ log' = Append(log, Line("FOLLOW CHILD SITEMAP",
                                       Top.data.sitemaps[Top.i]))
            /\ UNCHANGED <<pc, err, urls>>
       ELSE Return(Top.urls, "none", <<>>)
    /\ UNCHANGED <<web>>
    /\ UNCHANGED poolVars
    /\ UNCHANGED call

\* extract_Sleep pausing between children only, not before the first one
extract_Sleep_BetweenOnly ==
    /\ pc = "resolve" /\ stack # <<>> /\ Top.pc = "sleep"
    /\ stack' = SetTop([Top EXCEPT !.pc = "request"])
    /\ log' = IF Top.i > 1 THEN Append(log, Line("SLEEP", "")) ELSE log
    /\ UNCHANGED <<web, pc, err, urls>>
    /\ UNCHANGED poolVars
    /\ UNCHANGED call

\* line 121: time.Sleep(1 * time.Second)
extract_Sleep ==
    /\ pc = "resolve" /\ stack # <<>> /\ Top.pc = "sleep"
    /\ stack' = SetTop([Top EXCEPT !.pc = "request"])
    /\ log' = Append(log, Line("SLEEP", ""))
    /\ UNCHANGED <<web, pc, err, urls>>
    /\ UNCHANGED poolVars
    /\ UNCHANGED call

\* line 123, into makeRequest (line 56): the request for the child goes out
extract_Request ==
    /\ pc = "resolve" /\ stack # <<>> /\ Top.pc = "request"
    /\ stack' = SetTop([Top EXCEPT !.pc = "await"])
    /\ log' = Append(log, Line("REQUEST", Top.data.sitemaps[Top.i]))
    /\ UNCHANGED <<web, pc, err, urls>>
    /\ UNCHANGED poolVars
    /\ UNCHANGED call

\* extract_Response not waiting for the child's resolution: the loop goes
\* on to the next child at once
extract_Response_NoWait ==
    /\ pc = "resolve" /\ stack # <<>> /\ Top.pc = "await"
    /\ stack' = SetTop(SkipChild(Top))
    /\ log' = log
    /\ UNCHANGED <<web, pc, err, urls>>
    /\ UNCHANGED poolVars
    /\ UNCHANGED call

\* extract_Response with a depth limit: below the root's children a child
\* is skipped instead of resolved
extract_Response_DepthLimit ==
    /\ pc = "resolve" /\ stack # <<>> /\ Top.pc = "await"
    /\ LET r == makeRequest(Top.data.sitemaps[Top.i]) IN
       IF r.err # "none" \/ Len(stack) >= 2
       THEN /\ stack' = SetTop(SkipChild(Top))
            /\ log' = Append(log, Line("CHILD FETCH FAILED",
                                       Top.data.sitemaps[Top.i]))
       ELSE /\ stack' = Append(SetTop([Top EXCEPT !.pc = "call"]),
                               Frame(r.data))
            /\ log' = log
    /\ UNCHANGED <<web, pc, err, urls>>
    /\ UNCHANGED poolVars
    /\ UNCHANGED call

\* lines 123-130: makeRequest returns; on an error the child is skipped,
\* otherwise its (sanitized) body is resolved by a recursive call (followed
\* by the model down to MaxDepth activations)
extract_Response ==
    /\ pc = "resolve" /\ stack # <<>> /\ Top.pc = "await"
    /\ LET r == makeRequest(Top.data.sitemaps[Top.i]) IN
       IF r.err # "none"
       THEN /\ stack' = SetTop(SkipChild(Top))
            /\ log' = Append(log, Line("CHILD FETCH FAILED",
                                       Top.data.sitemaps[Top.i]))
       ELSE /\ Len(stack) < MaxDepth
            /\ stack' = Append(SetTop([Top EXCEPT !.pc = "call"]),
                               Frame(r.data))
            /\ log' = log
    /\ UNCHANGED <<web, pc, err, urls>>
    /\ UNCHANGED poolVars
    /\ UNCHANGED call

(* crawlSiteMap, lines 230-244 *)

\* lines 231-233, into makeRequest: the request for the root sitemap goes out
crawl_Request ==
    /\ pc = "start"
    /\ pc' = "await"
    /\ log' = log \o <<Line("START CRAWL", sitemapURL),
                       Line("REQUEST", sitemapURL)>>
    /\ UNCHANGED <<web, err, stack, urls>>
    /\ UNCHANGED poolVars
    /\ UNCHANGED call

\* lines 233-239: makeRequest returns; an error is returned to main,
\* otherwise extractURLsFromXML is called on the (sanitized) body
crawl_Response ==
    /\ pc = "await"
    /\ LET r == makeRequest(sitemapURL) IN
       IF r.err # "none"
       THEN /\ pc' = "fatal"
            /\ err' = r.err
            /\ log' = Append(log, Line("FATAL ERROR", r.err))
            /\ UNCHANGED stack
       ELSE /\ pc' = "resolve"
            /\ stack' = <<Frame(r.data)>>
            /\ UNCHANGED <<err, log>>
    /\ UNCHANGED <<web, urls>>
    /\ UNCHANGED poolVars
    /\ UNCHANGED call

Discovery ==
    \/ crawl_Request
    \/ crawl_Response
    \/ extract_Decode
    \/ extract_Loop
    \/ extract_Sleep
    \/ extract_Request
    \/ extract_Response

----------------------------------------------------------------------------
(* Pages the site can serve *)

Text(chars) == [Type |-> "text", Data |-> chars, Attr |-> <<>>,
                Children |-> <<>>]
Elem(tag, attr, children) == [Type |-> "element", Data |-> tag,
                              Attr |-> attr, Children |-> children]
Attr(k, v) == [Key |-> k, Val |-> v]

\* html.Parse's tree of a page with one title, description and canonical
PageA ==
    Elem("html", <<>>, <<
        Elem("head", <<>>, <<
            Elem("title", <<>>, <<Text(<<" ", "A", " ">>)>>),
            Elem("meta", <<Attr("name", "description"),
                           Attr("content", "dA")>>, <<>>),
            Elem("link", <<Attr("rel", "canonical"),
                           Attr("href", "cA")>>, <<>>)>>),
        Elem("body", <<>>, <<>>)>>)

\* what makeRequest can return for a page URL: (body, ct, status, err)
PageAnswers ==
    { [err |-> "network", ct |-> "", status |-> 0, body |-> Text(<<>>)],
      [err |-> "none", ct |-> "application/pdf", status |-> 404,
       body |-> Text(<<>>)],
      [err |-> "none", ct |-> "text/html; charset=utf-8",
       status |-> 200, body |-> PageA] }

\* line 209: strings.Contains(ct, "text/html"), on the content types served
ContainsTextHTML(ct) == ct \in {"text/html", "text/html; charset=utf-8"}

----------------------------------------------------------------------------
(* parseHTML, lines 144-194 *)

Space == {" ", "\t", "\n", "\r"}

RECURSIVE TrimLeft(_)
TrimLeft(cs) ==
    IF cs # <<>> /\ Head(cs) \in Space THEN TrimLeft(Tail(cs)) ELSE cs

RECURSIVE TrimRight(_)
TrimRight(cs) ==
    IF cs # <<>> /\ cs[Len(cs)] \in Space
    THEN TrimRight(SubSeq(cs, 1, Len(cs) - 1)) ELSE cs

\* strings.TrimSpace
TrimSpace(cs) == TrimRight(TrimLeft(cs))

\* the Val of the last attribute with key k, or dflt when there is none
\* (each match of the loops at lines 163-170 and 177-181 overwrites)
RECURSIVE LastVal(_, _, _)
LastVal(attr, k, dflt) ==
    IF attr = <<>> THEN dflt
    ELSE LastVal(Tail(attr), k,
                 IF Head(attr).Key = k THEN Head(attr).Val ELSE dflt)

HasAttr(attr, k, v) ==
    \E j \in 1..Len(attr) : attr[j].Key = k /\ attr[j].Val = v

\* lines 155-185: what visiting node n does to (title, metaDesc, canonical)
Visit(n, m) ==
    IF n.Type # "element" THEN m
    ELSE CASE n.Data = "title" ->
                IF n.Children # <<>>
                THEN [m EXCEPT !.title = TrimSpace(n.Children[1].Data)]
                ELSE m
           [] n.Data = "meta" ->
                IF HasAttr(n.Attr, "name", "description")
                THEN [m EXCEPT !.metaDesc = LastVal(n.Attr, "content", "")]
                ELSE m
           [] n.Data = "link" ->
                IF HasAttr(n.Attr, "rel", "canonical")
                THEN [m EXCEPT !.canonical = LastVal(n.Attr, "href", @)]
                ELSE m
           [] OTHER -> m

\* lines 153-190: walk visits n, then its children in order
RECURSIVE walk(_, _)
RECURSIVE walkChildren(_, _)
walk(n, m) == walkChildren(n.Children, Visit(n, m))
walkChildren(cs, m) ==
    IF cs = <<>> THEN m ELSE walkChildren(Tail(cs), walk(Head(cs), m))

parseHTML(doc) ==
    walk(doc, [title |-> <<>>, metaDesc |-> "", canonical |-> ""])

----------------------------------------------------------------------------
(* worker, lines 196-228 *)

Workers == 0..(workerCount - 1)

CrawlResult(url, status, title, desc, canonical) ==
    [URL |-> url, Status |-> status, Title |-> title,
     MetaDescription |-> desc, Canonical |-> canonical]

NoResult == CrawlResult("", 0, <<>>, "", "")

\* the process is alive: main has not returned and nothing has panicked
Alive == ~crashed /\ pc \notin {"complete", "fatal"}

BagAdd(b, x) == b (+) SetToBag({x})

\* the worker's loop ends (jobs closed and drained): line 227, then the
\* deferred wg.Done() of line 197
WorkerReturn(id) ==
    /\ wk' = [wk EXCEPT ![id].pc = "done"]
    /\ wg' = wg - 1

\* lines 200-203: receive the next url from jobs and send the request for
\* it, or leave the loop when jobs is closed and empty
worker_Range(id) ==
    /\ Alive /\ wk[id].pc = "range"
    /\ IF jobs # <<>>
       THEN /\ wk' = [wk EXCEPT ![id].pc = "request", ![id].url = Head(jobs)]
            /\ jobs' = Tail(jobs)
            /\ fetching' = BagAdd(fetching, Head(jobs))
            /\ UNCHANGED wg
       ELSE /\ jobsClosed
            /\ WorkerReturn(id)
            /\ UNCHANGED <<jobs, fetching>>
    /\ UNCHANGED <<i, jobsClosed, results, resultsClosed, feeder, closer,
                   responded, emitted, reported, crashed>>
    /\ UNCHANGED discoveryVars
    /\ UNCHANGED call

\* AfterFetch with the error branch sending a result instead of continuing
AfterFetch_ErrResult(w, r) ==
    IF r.err # "none" \/ ~ContainsTextHTML(r.ct)
    THEN [w EXCEPT !.pc = "sendPlain",
                   !.res = CrawlResult(w.url, r.status, <<>>, "", "")]
    ELSE LET m == parseHTML(r.body) IN
         [w EXCEPT !.pc = "sendHTML",
                   !.res = CrawlResult(w.url, r.status, m.title, m.metaDesc,
                                       m.canonical)]

\* lines 203-214: makeRequest returns r for the worker's url
AfterFetch(w, r) ==
    IF r.err # "none"
    THEN [w EXCEPT !.pc = "range"]
    ELSE IF ~ContainsTextHTML(r.ct)
    THEN [w EXCEPT !.pc = "sendPlain",
                   !.res = CrawlResult(w.url, r.status, <<>>, "", "")]
    ELSE LET m == parseHTML(r.body) IN
         [w EXCEPT !.pc = "sendHTML",
                   !.res = CrawlResult(w.url, r.status, m.title, m.metaDesc,
                                       m.canonical)]

worker_Response(id) ==
    /\ Alive /\ wk[id].pc = "request"
    /\ \E r \in PageAnswers :
        /\ wk' = [wk EXCEPT ![id] = AfterFetch(wk[id], r)]
        /\ responded' = IF r.err = "none"
                        THEN BagAdd(responded, wk[id].url) ELSE responded
    /\ UNCHANGED <<i, wg, jobs, jobsClosed, results, resultsClosed, feeder,
                   closer, fetching, emitted, reported, crashed>>
    /\ UNCHANGED discoveryVars
    /\ UNCHANGED call

\* results <- res: blocks while the buffer is full, panics when closed
Send(id, next) ==
    IF resultsClosed
    THEN /\ crashed' = TRUE
         /\ UNCHANGED <<results, emitted, wk>>
    ELSE /\ Len(results) < ResultsCap
         /\ results' = Append(results, wk[id].res)
         /\ emitted' = BagAdd(emitted, wk[id].res)
         /\ wk' = [wk EXCEPT ![id].pc = next, ![id].res = NoResult]
         /\ UNCHANGED crashed

\* lines 210-211: the result of a non-HTML page, then continue
worker_SendPlain(id) ==
    /\ Alive /\ wk[id].pc = "sendPlain"
    /\ Send(id, "range")
    /\ UNCHANGED <<i, wg, jobs, jobsClosed, resultsClosed, feeder, closer,
                   fetching, responded, reported>>
    /\ UNCHANGED discoveryVars
    /\ UNCHANGED call

\* lines 216-222: the result of an HTML page
worker_SendHTML(id) ==
    /\ Alive /\ wk[id].pc = "sendHTML"
    /\ Send(id, "sleep")
    /\ UNCHANGED <<i, wg, jobs, jobsClosed, resultsClosed, feeder, closer,
                   fetching, responded, reported>>
    /\ UNCHANGED discoveryVars
    /\ UNCHANGED call

\* line 224: time.Sleep(300 * time.Millisecond)
worker_Sleep(id) ==
    /\ Alive /\ wk[id].pc = "sleep"
    /\ wk' = [wk EXCEPT ![id].pc = "range"]
    /\ UNCHANGED <<i, wg, jobs, jobsClosed, results, resultsClosed, feeder,
                   closer, fetching, responded, emitted, reported, crashed>>
    /\ UNCHANGED discoveryVars
    /\ UNCHANGED call

worker(id) ==
    \/ worker_Range(id)
    \/ worker_Response(id)
    \/ worker_SendPlain(id)
    \/ worker_SendHTML(id)
    \/ worker_Sleep(id)

----------------------------------------------------------------------------
(* crawlSiteMap, lines 246-284 *)

\* crawl_Spawn starting one worker per url of the list, at most workerCount
crawl_Spawn_PerURL ==
    /\ Alive /\ pc = "spawn" /\ i < workerCount
    /\ wg' = wg + (IF i < Len(urls) THEN 1 ELSE 0)
    /\ wk' = [wk EXCEPT ![i].pc = IF i < Len(urls) THEN "range" ELSE @]
    /\ i' = i + 1
    /\ UNCHANGED <<jobs, jobsClosed, results, resultsClosed, feeder, closer,
                   fetching, responded, emitted, reported, crashed>>
    /\ UNCHANGED discoveryVars
    /\ UNCHANGED call

\* lines 254-257: wg.Add(1); go worker(i, jobs, results, &wg).  The new
\* goroutine logs WORKER STARTED (line 198) and stands at its range loop.
crawl_Spawn ==
    /\ Alive /\ pc = "spawn" /\ i < workerCount
    /\ wg' = wg + 1
    /\ wk' = [wk EXCEPT ![i].pc = "range"]
    /\ i' = i + 1
    /\ UNCHANGED <<jobs, jobsClosed, results, resultsClosed, feeder, closer,
                   fetching, responded, emitted, reported, crashed>>
    /\ UNCHANGED discoveryVars
    /\ UNCHANGED call

\* line 259: go func() { ... close(jobs) }()
crawl_GoFeeder ==
    /\ Alive /\ pc = "spawn" /\ i >= workerCount
    /\ pc' = "goCloser"
    /\ feeder' = [pc |-> "send", k |-> 1]
    /\ UNCHANGED <<web, err, stack, urls, log, call>>
    /\ UNCHANGED <<i, wg, jobs, jobsClosed, results, resultsClosed, wk,
                   closer, fetching, responded, emitted, reported, crashed>>

\* line 266: go func() { wg.Wait(); close(results) }()
crawl_GoCloser ==
    /\ Alive /\ pc = "goCloser"
    /\ pc' = "range"
    /\ closer' = "wait"
    /\ UNCHANGED <<web, err, stack, urls, log, call>>
    /\ UNCHANGED <<i, wg, jobs, jobsClosed, results, resultsClosed, wk,
                   feeder, fetching, responded, emitted, reported, crashed>>

\* crawl_Range ending the loop as soon as results is closed, buffered
\* results or not
crawl_Range_StopAtClose ==
    /\ Alive /\ pc = "range"
    /\ IF resultsClosed
       THEN /\ pc' = "complete"
            /\ UNCHANGED <<results, reported>>
       ELSE /\ results # <<>>
            /\ results' = Tail(results)
            /\ reported' = BagAdd(reported, Head(results))
            /\ UNCHANGED pc
    /\ UNCHANGED <<web, err, stack, urls, log, call>>
    /\ UNCHANGED <<i, wg, jobs, jobsClosed, resultsClosed, wk, feeder,
                   closer, fetching, responded, emitted, crashed>>

\* lines 271-283: log the next result, or, when results is closed and
\* empty, log CRAWL COMPLETE and return nil
crawl_Range ==
    /\ Alive /\ pc = "range"
    /\ IF results # <<>>
       THEN /\ results' = Tail(results)
            /\ reported' = BagAdd(reported, Head(results))
            /\ UNCHANGED pc
       ELSE /\ resultsClosed
            /\ pc' = "complete"
            /\ UNCHANGED <<results, reported>>
    /\ UNCHANGED <<web, err, stack, urls, log, call>>
    /\ UNCHANGED <<i, wg, jobs, jobsClosed, resultsClosed, wk, feeder,
                   closer, fetching, responded, emitted, crashed>>

\* FeederDone leaving the loop one entry early
FeederDone_OneEarly == feeder.k >= Len(urls)

\* line 260: the range over urls is exhausted
FeederDone == feeder.k > Len(urls)

\* lines 260-262: jobs <- url, blocking while the buffer is full
feeder_Send ==
    /\ Alive /\ feeder.pc = "send" /\ ~FeederDone
    /\ Len(jobs) < JobsCap
    /\ jobs' = Append(jobs, urls[feeder.k])
    /\ feeder' = [feeder EXCEPT !.k = @ + 1]
    /\ UNCHANGED <<i, wg, jobsClosed, results, resultsClosed, wk, closer,
                   fetching, responded, emitted, reported, crashed>>
    /\ UNCHANGED discoveryVars
    /\ UNCHANGED call

\* feeder_Close without the close(jobs)
feeder_Close_NoClose ==
    /\ Alive /\ feeder.pc = "send" /\ feeder.k > Len(urls)
    /\ feeder' = [feeder EXCEPT !.pc = "done"]
    /\ UNCHANGED <<i, wg, jobs, jobsClosed, results, resultsClosed, wk,
                   closer, fetching, responded, emitted, reported, crashed>>
    /\ UNCHANGED discoveryVars
    /\ UNCHANGED call

\* line 263: close(jobs), after the last url
feeder_Close ==
    /\ Alive /\ feeder.pc = "send" /\ FeederDone
    /\ jobsClosed' = TRUE
    /\ feeder' = [feeder EXCEPT !.pc = "done"]
    /\ UNCHANGED <<i, wg, jobs, results, resultsClosed, wk, closer,
                   fetching, responded, emitted, reported, crashed>>
    /\ UNCHANGED discoveryVars
    /\ UNCHANGED call

\* WaitDone without the wait
WaitDone_NoWait == TRUE

\* line 267: wg.Wait() returns when the counter is zero
WaitDone == wg = 0

closer_Wait ==
    /\ Alive /\ closer = "wait"
    /\ WaitDone
    /\ closer' = "close"
    /\ UNCHANGED <<i, wg, jobs, jobsClosed, results, resultsClosed, wk,
                   feeder, fetching, responded, emitted, reported, crashed>>
    /\ UNCHANGED discoveryVars
    /\ UNCHANGED call

\* line 268: close(results)
closer_Close ==
    /\ Alive /\ closer = "close"
    /\ resultsClosed' = TRUE
    /\ closer' = "done"
    /\ UNCHANGED <<i, wg, jobs, jobsClosed, results, wk, feeder, fetching,
                   responded, emitted, reported, crashed>>
    /\ UNCHANGED discoveryVars
    /\ UNCHANGED call

Pool ==
    \/ crawl_Spawn
    \/ crawl_GoFeeder
    \/ crawl_GoCloser
    \/ crawl_Range
    \/ feeder_Send
    \/ feeder_Close
    \/ closer_Wait
    \/ closer_Close
    \/ \E id \in Workers : worker(id)

----------------------------------------------------------------------------
(* Specifications *)

InitPool ==
    /\ i = 0
    /\ wg = 0
    /\ jobs = <<>>
    /\ jobsClosed = FALSE
    /\ results = <<>>
    /\ resultsClosed = FALSE
    /\ wk = [id \in Workers |-> [pc |-> "none", url |-> "", res |-> NoResult]]
    /\ feeder = [pc |-> "none", k |-> 1]
    /\ closer = "none"
    /\ fetching = EmptyBag
    /\ responded = EmptyBag
    /\ emitted = EmptyBag
    /\ reported = EmptyBag
    /\ crashed = FALSE

\* the program before main runs
InitMain ==
    /\ pc = "start"
    /\ err = "none"
    /\ stack = <<>>
    /\ urls = <<>>
    /\ log = <<>>
    /\ InitPool

InitRun ==
    /\ InitMain
    /\ call = [fn |-> "none"]

URLSet(us) == FetchOK([wf |-> TRUE, urls |-> us, sitemaps |-> <<>>])
Index(sm) == FetchOK([wf |-> TRUE, urls |-> <<>>, sitemaps |-> sm])
Malformed == FetchOK(NoData)
\* the sites of the full runs: roots that fail in each way, urlset roots,
\* and index roots whose children fail, nest and repeat
Sites ==
    { Site(FetchErr("network"), Malformed, Malformed),
      Site(FetchErr("decode"), Malformed, Malformed),
      Site(Malformed, Malformed, Malformed),
      Site(URLSet(<<>>), Malformed, Malformed),
      Site(URLSet(<<"p1", "p2">>), Malformed, Malformed),
      Site(FetchOK([wf |-> TRUE, urls |-> <<"p2">>, sitemaps |-> <<"s1">>]),
           URLSet(<<"p1">>), Malformed),
      Site(Index(<<"s1", "s2">>), URLSet(<<"p1", "p2", "p1">>),
           FetchErr("network")),
      Site(Index(<<"s1">>), FetchErr("network"), Malformed),
      Site(Index(<<"s1", "s2">>), FetchErr("decode"), URLSet(<<>>)),
      Site(Index(<<"s1", "s2">>), Index(<<"s2">>), URLSet(<<"p1">>)),
      Site(Index(<<"s1", "s2">>), Index(<<"s2", "s2">>), Malformed),
      Site(Index(<<"s2", "s1", "s2">>), Malformed, URLSet(<<"p2">>)) }

Init == web \in Sites /\ InitRun

Next == Discovery \/ Pool

\* the whole run, on the sites of Sites
Spec == Init /\ [][Next]_vars

InitResolve == web \in (Webs \cup Sites) /\ InitRun

\* the discovery phase alone (lines 230-244), on the sites of Webs and Sites
SpecResolve == InitResolve /\ [][Discovery]_vars

\* every goroutine that can take a step eventually takes one, and every
\* request gets its answer
Fairness ==
    /\ WF_vars(Discovery)
    /\ WF_vars(crawl_Spawn \/ crawl_GoFeeder \/ crawl_GoCloser \/ crawl_Range)
    /\ WF_vars(feeder_Send \/ feeder_Close)
    /\ WF_vars(closer_Wait \/ closer_Close)
    /\ \A id \in Workers : WF_vars(worker(id))

\* the sites of Sites whose lists have at most two entries (none, fewer
\* than the jobs buffer holds, and more)
ShortSites == {w \in Sites : \A u \in SitemapURLs : Len(w[u].data.urls) <= 2}

InitFair == web \in ShortSites /\ InitRun

\* the whole run under fair scheduling
FairSpec == InitFair /\ [][Next]_vars /\ Fairness

----------------------------------------------------------------------------
(* Properties of the worker pool *)

RECURSIVE BagOfSeq(_)
BagOfSeq(q) == IF q = <<>> THEN EmptyBag ELSE BagAdd(BagOfSeq(Tail(q)), Head(q))

\* number of results for url in bag b
RECURSIVE SumFor(_, _, _)
SumFor(b, S, url) ==
    IF S = {} THEN 0
    ELSE LET r == CHOOSE x \in S : TRUE IN
         (IF r.URL = url THEN CopiesIn(r, b) ELSE 0) + SumFor(b, S \ {r}, url)
ResultsFor(b, url) == SumFor(b, BagToSet(b), url)

WorkersAt(pcs) == {id \in Workers : wk[id].pc \in pcs}
Holding(pcs, url) == Cardinality({id \in WorkersAt(pcs) : wk[id].url = url})

\* how often url occurs in the list q
Occurrences(q, url) == Cardinality({k \in 1..Len(q) : q[k] = url})

Submitted == SubSeq(urls, 1, feeder.k - 1)

\* C1: every entry of the resolved list is fetched exactly once: at any
\* moment what the workers have fetched, together with what waits in jobs,
\* is exactly what the feeder has submitted so far, url by url (so nothing
\* is fetched twice or lost), and when the run is complete every url has
\* been fetched as often as it occurs in the list, M fetches in total.
C1_EveryURLFetchedOnce ==
    /\ \A u \in PageURLs :
          CopiesIn(u, fetching) + Occurrences(jobs, u)
              = Occurrences(Submitted, u)
    /\ BagCardinality(fetching) + Len(jobs) = Len(Submitted)
    /\ pc = "complete" =>
          /\ BagCardinality(fetching) = Len(urls)
          /\ \A u \in PageURLs :
                CopiesIn(u, fetching) = Occurrences(urls, u)

\* a complete run on a list longer than the jobs buffer with a url twice
C1_Witness ==
    /\ pc = "complete"
    /\ Len(urls) > JobsCap
    /\ \E u \in PageURLs : Occurrences(urls, u) = 2 /\ CopiesIn(u, fetching) = 2

\* a complete run on the empty list
C1_WitnessEmpty == pc = "complete" /\ urls = <<>> /\ fetching = EmptyBag

\* C2: results is closed only after every worker has returned: from the
\* moment wg.Wait() has returned no worker is running, and no send on the
\* closed channel ever happens.
C2_ClosedAfterWorkers ==
    /\ closer \in {"close", "done"} => \A id \in Workers : wk[id].pc = "done"
    /\ resultsClosed => closer = "done"
    /\ ~crashed

\* results closed after workers that did send results
C2_Witness ==
    /\ resultsClosed
    /\ BagCardinality(emitted) >= 2
    /\ \A id \in Workers : wk[id].pc = "done"

\* C3: a fetched url yields one result, carrying that url, when the fetch
\* returned without error and none otherwise: url by url, the results
\* emitted plus those a worker is about to send are as many as the fetches
\* of that url that returned without error, which are no more than the
\* fetches of it; in total never more than the list has entries.
C3_OneResultPerSuccess ==
    /\ \A u \in PageURLs :
          /\ ResultsFor(emitted, u) + Holding({"sendPlain", "sendHTML"}, u)
                = CopiesIn(u, responded)
          /\ CopiesIn(u, responded) + Holding({"request"}, u)
                <= CopiesIn(u, fetching)
    /\ \A id \in WorkersAt({"sendPlain", "sendHTML"}) :
          wk[id].res.URL = wk[id].url
    /\ BagCardinality(emitted) <= Len(urls)
    /\ pc = "complete" => BagCardinality(emitted) = BagCardinality(responded)

\* a complete run in which one fetch failed and two did not
C3_Witness ==
    /\ pc = "complete"
    /\ BagCardinality(fetching) = 3
    /\ BagCardinality(responded) = 2
    /\ BagCardinality(emitted) = 2

AllWorkersDone == \A id \in Workers : wk[id].pc = "done"

Completed ==
    /\ pc = "complete"
    /\ jobsClosed /\ jobs = <<>>
    /\ AllWorkersDone
    /\ resultsClosed /\ results = <<>>

C4_WitnessEmpty == Completed /\ urls = <<>>

\* C5: crawlSiteMap reports every emitted result exactly once before it
\* completes: every emitted result is either still in the results buffer
\* or reported, never both nor twice, and at CRAWL COMPLETE the reported
\* results are the emitted ones and the buffer is empty.
C5_AllResultsReported ==
    /\ reported (+) BagOfSeq(results) = emitted
    /\ pc = "complete" => reported = emitted /\ results = <<>>

\* a complete run that reported three results, two of them equal
C5_Witness ==
    /\ pc = "complete"
    /\ BagCardinality(reported) = 3
    /\ \E r \in BagToSet(reported) : CopiesIn(r, reported) = 2

RootAnswer == web[sitemapURL]
RootFetchFails == RootAnswer.err \in {"network", "decode"}
NoEntries(d) == ~d.wf \/ (Len(d.urls) = 0 /\ Len(d.sitemaps) = 0)
RootUnsupported == RootAnswer.err = "none" /\ NoEntries(RootAnswer.data)

Requests == {k \in 1..Len(log) : log[k].ev = "REQUEST"}

PoolUntouched ==
    /\ i = 0 /\ wg = 0
    /\ \A id \in Workers : wk[id].pc = "none"
    /\ feeder.pc = "none" /\ closer = "none"
    /\ jobs = <<>> /\ results = <<>>
    /\ fetching = EmptyBag /\ emitted = EmptyBag /\ reported = EmptyBag

\* C6: when the fetch of the root sitemap fails, or its body has neither
\* shape, the run is aborted with that error: crawlSiteMap never gets past
\* the resolve, no worker is started, no page is fetched, no result is
\* emitted, and no request but the root's is made.
C6_RootFailureAborts ==
    (RootFetchFails \/ RootUnsupported) =>
        /\ pc \in {"start", "await", "resolve", "fatal"}
        /\ PoolUntouched
        /\ Cardinality(Requests) <= 1
        /\ pc = "fatal" =>
              err = (IF RootFetchFails THEN RootAnswer.err ELSE "unsupported")

\* the run aborted on a root body of neither shape
C6_Witness == pc = "fatal" /\ err = "unsupported" /\ RootUnsupported

\* the run aborted on a failed root fetch
C6_WitnessFetch == pc = "fatal" /\ err = "network" /\ RootFetchFails

----------------------------------------------------------------------------
(* Properties of the sitemap resolution *)

HasPageEntries(d) == d.wf /\ Len(d.urls) >= 1
IndexShaped(d) == d.wf /\ Len(d.urls) = 0 /\ Len(d.sitemaps) >= 1

\* the url list the child sitemap at u stands for: its page locations, or
\* for an index the lists of its own children one after the other; nothing
\* when its fetch fails or its body has neither shape
RECURSIVE Contribution(_)
Contribution(u) ==
    LET a == web[u] IN
    IF a.err # "none" THEN <<>>
    ELSE IF HasPageEntries(a.data) THEN a.data.urls
    ELSE IF IndexShaped(a.data)
         THEN Concat([j \in 1..Len(a.data.sitemaps) |->
                        Contribution(a.data.sitemaps[j])])
         ELSE <<>>

\* the lists of the first n children of sm, one after the other
ChildLists(sm, n) == Concat([j \in 1..n |-> Contribution(sm[j])])

RECURSIVE Sum(_)
Sum(q) == IF q = <<>> THEN 0 ELSE Head(q) + Sum(Tail(q))

\* the requests resolving u takes: its own, and for an index those of
\* every child
RECURSIVE FetchCount(_)
FetchCount(u) ==
    LET a == web[u] IN
    1 + (IF a.err = "none" /\ IndexShaped(a.data)
         THEN Sum([j \in 1..Len(a.data.sitemaps) |->
                     FetchCount(a.data.sitemaps[j])])
         ELSE 0)

RootIsIndex == RootAnswer.err = "none" /\ IndexShaped(RootAnswer.data)
Resolving == pc \in {"start", "await", "resolve"}

\* C7: an index resolves to the lists of its children one after the other,
\* in document order, at every nesting level: every activation that walks
\* an index has collected exactly the lists of the children before the
\* current one (the empty list for a child that failed), and the list
\* crawlSiteMap receives for an index root is that of all its children.
C7_IndexIsConcatenation ==
    /\ \A k \in 1..Len(stack) :
          stack[k].urls = ChildLists(stack[k].data.sitemaps, stack[k].i - 1)
    /\ (pc = "spawn" /\ RootIsIndex) =>
          urls = ChildLists(RootAnswer.data.sitemaps,
                            Len(RootAnswer.data.sitemaps))

\* an index root with a nested index resolved to a list with two urls
C7_Witness ==
    /\ pc = "spawn" /\ RootIsIndex
    /\ \E j \in 1..Len(RootAnswer.data.sitemaps) :
          LET a == web[RootAnswer.data.sitemaps[j]] IN
          a.err = "none" /\ IndexShaped(a.data)
    /\ Len(urls) >= 3
    /\ \E a, b \in 1..Len(urls) : urls[a] # urls[b]

\* an index root whose first child failed to fetch and whose second did not
C7_WitnessFailedChild ==
    /\ pc = "spawn" /\ RootIsIndex
    /\ Len(RootAnswer.data.sitemaps) = 2
    /\ web[RootAnswer.data.sitemaps[1]].err # "none"
    /\ Len(urls) = 2 /\ urls[1] # urls[2]

\* the site of the scenario: root index with children A (three urls) and
\* B (network error)
ScenarioSite ==
    Site(Index(<<"s1", "s2">>), URLSet(<<"p1", "p2", "p1">>),
         FetchErr("network"))

ChildFailed(u) ==
    web[u].err # "none" \/ NoEntries(web[u].data)

\* C8: a failing child never aborts its parent index: an index root never
\* ends in the fatal error, and when its resolve has returned every
\* sibling has been requested (as many requests as the whole tree has
\* references) and the list holds what the other children gave, the empty
\* list when all failed.  On the scenario site the list is A's three urls
\* and the crawl emits at most three results.
C8_ChildFailureSkipped ==
    /\ RootIsIndex =>
          /\ pc # "fatal" /\ err = "none"
          /\ ~Resolving =>
                /\ urls = ChildLists(RootAnswer.data.sitemaps,
                                     Len(RootAnswer.data.sitemaps))
                /\ Cardinality(Requests) = FetchCount(sitemapURL)
    /\ web = ScenarioSite =>
          /\ ~Resolving => urls = <<"p1", "p2", "p1">>
          /\ BagCardinality(emitted) <= 3

\* the scenario run complete with three results
C8_Witness ==
    /\ web = ScenarioSite /\ pc = "complete" /\ BagCardinality(emitted) = 3

\* a complete run on an index root all of whose children failed
C8_WitnessAllFail ==
    /\ RootIsIndex /\ pc = "complete" /\ urls = <<>>
    /\ \A j \in 1..Len(RootAnswer.data.sitemaps) :
          ChildFailed(RootAnswer.data.sitemaps[j])

\* a complete run on an index root with a failing child before a good one
C8_WitnessSibling ==
    /\ RootIsIndex /\ pc = "complete" /\ urls # <<>>
    /\ \E j \in 1..(Len(RootAnswer.data.sitemaps) - 1) :
          /\ ChildFailed(RootAnswer.data.sitemaps[j])
          /\ ~ChildFailed(RootAnswer.data.sitemaps[j + 1])

\* C9: a body that decodes with N >= 1 page locations resolves to exactly
\* those N locations in document order with no further fetch: for such a
\* root the list is the body's, the root's request is the only one and no
\* delay is taken; at any level such a body is never walked as an index.
C9_URLSetReturned ==
    /\ (RootAnswer.err = "none" /\ HasPageEntries(RootAnswer.data)) =>
          /\ pc # "fatal"
          /\ pc = "spawn" => urls = RootAnswer.data.urls
          /\ Cardinality(Requests) <= 1
          /\ \A k \in 1..Len(log) : log[k].ev # "SLEEP"
    /\ \A k \in 1..Len(stack) :
          HasPageEntries(stack[k].data) => stack[k].pc = "decode"

\* a root with two different page locations, resolved
C9_Witness ==
    /\ pc = "spawn"
    /\ RootAnswer.err = "none" /\ HasPageEntries(RootAnswer.data)
    /\ Len(urls) = 2 /\ urls[1] # urls[2]

ParseFailures == {k \in 1..Len(log) : log[k].ev = "CHILD PARSE FAILED"}

\* C10: resolve fails with the unsupported-format error exactly on bodies
\* with no page location and no child sitemap (not well-formed ones
\* included), returning no url and fetching no child.  For the root: the
\* run ends in that error if and only if the root body has no entry; for
\* children: a child is logged as failing to parse if and only if its
\* fetched body has no entry.
C10_UnsupportedIffNoEntries ==
    /\ (~Resolving /\ RootAnswer.err = "none") =>
          ((pc = "fatal" /\ err = "unsupported")
              <=> NoEntries(RootAnswer.data))
    /\ err = "unsupported" =>
          /\ pc = "fatal" /\ RootAnswer.err = "none"
          /\ urls = <<>>
          /\ Cardinality(Requests) = 1
    /\ \A k \in ParseFailures :
          web[log[k].arg].err = "none" /\ NoEntries(web[log[k].arg].data)
    /\ ~Resolving =>
          Cardinality(ParseFailures)
            = Cardinality({k \in Requests : k > 2 /\ web[log[k].arg].err = "none"
                                            /\ NoEntries(web[log[k].arg].data)})

\* the run aborted on a well-formed root body with no entry
C10_Witness ==
    /\ pc = "fatal" /\ err = "unsupported"
    /\ RootAnswer.err = "none" /\ RootAnswer.data.wf

\* a resolved index one of whose children had a body with no entry
C10_WitnessChild == pc = "spawn" /\ ParseFailures # {}

----------------------------------------------------------------------------
(* sanitizeXML, lines 98-102 *)

\* bytes.ReplaceAll with a non-empty old: the non-overlapping occurrences
\* of old, found from the left, are replaced by new
RECURSIVE ReplaceAll(_, _, _)
ReplaceAll(b, old, new) ==
    IF Len(b) < Len(old) THEN b
    ELSE IF SubSeq(b, 1, Len(old)) = old
         THEN new \o ReplaceAll(SubSeq(b, Len(old) + 1, Len(b)), old, new)
         ELSE <<Head(b)>> \o ReplaceAll(Tail(b), old, new)

Amp == <<"&">>
AmpEsc == <<"&", "a", "m", "p", ";">>
AmpEscEsc == <<"&", "a", "m", "p", ";", "a", "m", "p", ";">>

\* sanitizeXML collapsing the double escape to a bare "&"
sanitizeXML_CollapseToAmp(b) ==
    ReplaceAll(ReplaceAll(b, Amp, AmpEsc), AmpEscEsc, Amp)

\* sanitizeXML without line 100
sanitizeXML_NoCollapse(b) == ReplaceAll(b, Amp, AmpEsc)

\* lines 99-101
sanitizeXML(b) ==
    ReplaceAll(ReplaceAll(b, Amp, AmpEsc), AmpEscEsc, AmpEsc)

\* the byte strings sanitizeXML is applied to: every string of up to MaxLen
\* bytes over Bytes, and every string of up to MaxPieces of Pieces
Bytes == {"&", "a", "m", "p", ";", "x"}
Pieces == {Amp, AmpEsc, <<"a", "m", "p", ";">>, <<"x">>}
ByteStrings ==
    SeqsUpTo(Bytes, MaxLen) \cup {Concat(ps) : ps \in SeqsUpTo(Pieces, MaxPieces)}

InitSanitize ==
    /\ web = Site(Malformed, Malformed, Malformed)
    /\ InitMain
    /\ \E x \in ByteStrings :
          call = [fn |-> "sanitizeXML", pc |-> "first", x |-> x,
                  once |-> <<>>, twice |-> <<>>]

\* sanitizeXML(x)
sanitize_First ==
    /\ call.fn = "sanitizeXML" /\ call.pc = "first"
    /\ call' = [call EXCEPT !.pc = "second", !.once = sanitizeXML(call.x)]
    /\ UNCHANGED discoveryVars
    /\ UNCHANGED poolVars

\* sanitizeXML applied to its own result
sanitize_Second ==
    /\ call.fn = "sanitizeXML" /\ call.pc = "second"
    /\ call' = [call EXCEPT !.pc = "done", !.twice = sanitizeXML(call.once)]
    /\ UNCHANGED discoveryVars
    /\ UNCHANGED poolVars

\* sanitizeXML on its own, on the byte strings of ByteStrings
SpecSanitize == InitSanitize /\ [][sanitize_First \/ sanitize_Second]_vars

\* C11: sanitizeXML is idempotent: applied to its own result it returns
\* that result.
C11_SanitizeIdempotent ==
    (call.fn = "sanitizeXML" /\ call.pc = "done") => call.twice = call.once

\* both applications done on an input holding an escaped and a bare "&",
\* which the first application changed
C11_Witness ==
    /\ call.fn = "sanitizeXML" /\ call.pc = "done"
    /\ call.x = AmpEsc \o Amp
    /\ call.once # call.x

\* every "&" of b is immediately followed by "amp;"
Escaped(b) ==
    \A k \in 1..Len(b) :
        b[k] = "&" => /\ k + 4 <= Len(b)
                      /\ SubSeq(b, k, k + 4) = AmpEsc

\* C18: sanitizeXML leaves an input alone in which every "&" is already
\* followed by "amp;", and in its result every "&" is followed by "amp;".
C18_EscapedInputKept ==
    (call.fn = "sanitizeXML" /\ call.pc # "first") =>
        /\ Escaped(call.x) => call.once = call.x
        /\ Escaped(call.once)

\* sanitizeXML applied to "&amp;amp;&amp;", which it returns as it is
C18_Witness ==
    /\ call.fn = "sanitizeXML" /\ call.pc = "second"
    /\ call.x = AmpEsc \o <<"a", "m", "p", ";">> \o AmpEsc
    /\ Escaped(call.x)
    /\ call.once = call.x

----------------------------------------------------------------------------
(* Properties of the pauses and of the order of the requests *)

\* C12: a worker pauses after every page, whatever its outcome, before it
\* asks for the next job: a worker comes to the head of its range loop
\* only when it is started or out of the pause of line 224.
C12_PauseAfterEveryPage ==
    [][\A id \in Workers :
          (wk[id].pc # "range" /\ wk'[id].pc = "range")
              => wk[id].pc \in {"none", "sleep"}]_vars

\* the urls of the REQUEST lines of l, in order
RECURSIVE RequestedURLs(_)
RequestedURLs(l) ==
    IF l = <<>> THEN <<>>
    ELSE (IF Head(l).ev = "REQUEST" THEN <<Head(l).arg>> ELSE <<>>)
         \o RequestedURLs(Tail(l))

\* the requests of a sequential resolution of u in document order: u, then
\* for an index each child with all its descendants before the next child
RECURSIVE FetchOrder(_)
FetchOrder(u) ==
    LET a == web[u] IN
    <<u>> \o (IF a.err = "none" /\ IndexShaped(a.data)
              THEN Concat([j \in 1..Len(a.data.sitemaps) |->
                             FetchOrder(a.data.sitemaps[j])])
              ELSE <<>>)

IsPrefix(a, b) == Len(a) <= Len(b) /\ a = SubSeq(b, 1, Len(a))

\* sitemap requests sent and not yet answered
InFlightDiscovery ==
    (IF pc = "await" THEN 1 ELSE 0)
    + Cardinality({k \in 1..Len(stack) : stack[k].pc = "await"})

\* C13: discovery is strictly sequential: at most one request is in flight,
\* only the innermost activation runs (every other waits for the call of
\* its current child), the requests go out in document order, each child
\* with all its descendants before its next sibling, and while the root
\* resolve has not returned no worker exists and no page is fetched; after
\* it no sitemap request is made.
C13_DiscoverySequential ==
    /\ InFlightDiscovery <= 1
    /\ \A k \in 1..(Len(stack) - 1) : stack[k].pc = "call"
    /\ IsPrefix(RequestedURLs(log), FetchOrder(sitemapURL))
    /\ Resolving => PoolUntouched
    /\ ~Resolving =>
          /\ stack = <<>>
          /\ RequestedURLs(log) = FetchOrder(sitemapURL)

\* pages are being fetched after a nested index was resolved child by child
C13_Witness ==
    /\ RequestedURLs(log) = <<"s0", "s1", "s2", "s2">>
    /\ pc = "range"
    /\ WorkersAt({"request"}) # {}

----------------------------------------------------------------------------
(* Sites whose sitemaps may list each other *)

\* what a sitemap URL of such a site can answer: a failed fetch, a body of
\* neither shape, a urlset, a body of both kinds, an index of one or two
\* children; every child may be any sitemap URL, the listing one included
LoopAnswers ==
    {FetchErr("network"), Malformed, URLSet(<<"p1">>)}
    \cup {FetchOK([wf |-> TRUE, urls |-> <<"p1">>, sitemaps |-> <<c>>]) :
            c \in SitemapURLs}
    \cup {Index(<<a>>) : a \in SitemapURLs}
    \cup {Index(<<a, b>>) : a \in SitemapURLs, b \in SitemapURLs}

LoopWebs == [SitemapURLs -> LoopAnswers]

InitLoop == web \in LoopWebs /\ InitRun

\* the discovery phase on the sites of LoopWebs, every enabled step of the
\* resolve being taken eventually (every fetch returns)
SpecLoop == InitLoop /\ [][Discovery]_vars /\ WF_vars(Discovery)

\* the sitemaps the resolve of u goes on to when u's fetch succeeds and its
\* body is walked as an index
Follows(u) ==
    IF web[u].err = "none" /\ IndexShaped(web[u].data)
    THEN {web[u].data.sitemaps[j] : j \in 1..Len(web[u].data.sitemaps)}
    ELSE {}

RECURSIVE Closure(_, _)
Closure(S, n) ==
    IF n = 0 THEN S ELSE Closure(S \cup UNION {Follows(u) : u \in S}, n - 1)

FollowedFrom(S) == Closure(S, Cardinality(SitemapURLs))

\* an index followed from the root lists itself, directly or transitively
CycleFollowed ==
    \E u \in FollowedFrom({sitemapURL}) : u \in FollowedFrom(Follows(u))

\* C14: with every fetch returning, the resolve of the root terminates if
\* and only if no index followed from the root lists itself directly or
\* transitively: without such a cycle it returns, after one request per
\* reference on every path; with one it never returns.
C14_TerminatesIffAcyclic ==
    /\ CycleFollowed => []Resolving
    /\ ~CycleFollowed => <>(~Resolving)
    /\ [](~CycleFollowed /\ ~Resolving
            => Cardinality(Requests) = FetchCount(sitemapURL))

\* a resolve in a cycle, nested deeper than there are sitemap URLs
C14_Witness ==
    /\ CycleFollowed
    /\ Len(stack) > Cardinality(SitemapURLs)
    /\ Top.pc = "decode"

\* a resolve that returned after following three levels of indexes
C14_WitnessAcyclic ==
    /\ ~CycleFollowed /\ pc = "spawn"
    /\ Cardinality(FollowedFrom({sitemapURL})) = 3
    /\ Cardinality(Requests) >= 4

----------------------------------------------------------------------------
(* Bodies with entries of both kinds *)

BothKinds(d) == d.wf /\ Len(d.urls) >= 1 /\ Len(d.sitemaps) >= 1

ListedBy(d) == {d.sitemaps[j] : j \in 1..Len(d.sitemaps)}

\* C15: the urlset shape wins ties.  A root body with at least one page
\* location and at least one child sitemap resolves to exactly its page
\* locations in document order, the only request of the discovery phase is
\* the root's and no delay is taken; at every level, the activation of such
\* a body never enters the index loop and calls no child.
C15_URLSetWinsTies ==
    /\ (RootAnswer.err = "none" /\ BothKinds(RootAnswer.data)) =>
          /\ pc # "fatal"
          /\ ~Resolving => urls = URLSetLocs(RootAnswer.data)
          /\ \A k \in Requests : k = 2 /\ log[k].arg = sitemapURL
          /\ \A k \in 1..Len(log) :
                log[k].ev \notin {"SLEEP", "SITEMAP TYPE: index"}
          /\ Len(stack) <= 1
    /\ \A k \in 1..Len(stack) :
          BothKinds(stack[k].data) =>
             /\ k = Len(stack)
             /\ stack[k].pc = "decode"
             /\ stack[k].i = 1 /\ stack[k].urls = <<>>

\* a root with both kinds of entries, resolved to its page location while
\* the child it lists was never requested
C15_Witness ==
    /\ pc = "spawn"
    /\ RootAnswer.err = "none" /\ BothKinds(RootAnswer.data)
    /\ urls = RootAnswer.data.urls
    /\ \A k \in Requests : log[k].arg \notin ListedBy(RootAnswer.data)

\* a child with both kinds of entries being decoded below an index
C15_WitnessChild ==
    /\ Len(stack) = 2 /\ BothKinds(Top.data)
    /\ Top.pc = "decode"

----------------------------------------------------------------------------
(* The delay before every child fetch *)

Sleeps == {k \in 1..Len(log) : log[k].ev = "SLEEP"}

\* the requests of the discovery phase but the root's, which is the second
\* line of the log
ChildRequests == {k \in Requests : k > 2}

\* C16: every fetch of a child sitemap, at every nesting level, comes
\* right after one delay of the resolver: the step before a child request
\* is a delay, the step after a delay is a child request (or the request is
\* the activation's next step), so that once the resolve has returned there
\* are as many delays as child requests; a child whose fetch failed was
\* requested after its delay like any other.
C16_DelayBeforeEveryChildFetch ==
    /\ \A k \in ChildRequests : k - 1 \in Sleeps
    /\ \A k \in Sleeps :
          IF k < Len(log)
          THEN k + 1 \in ChildRequests
          ELSE pc = "resolve" /\ stack # <<>> /\ Top.pc = "request"
    /\ \A k \in 1..Len(log) :
          log[k].ev = "CHILD FETCH FAILED" =>
             /\ k - 1 \in ChildRequests /\ log[k - 1].arg = log[k].arg
             /\ k - 2 \in Sleeps
    /\ ~Resolving =>
          /\ Cardinality(Sleeps) = Cardinality(ChildRequests)
          /\ RootIsIndex =>
                Cardinality(ChildRequests) = FetchCount(sitemapURL) - 1

\* a resolve that returned after delays at two nesting levels, one of them
\* before a child whose fetch failed
C16_Witness ==
    /\ pc = "spawn"
    /\ Cardinality(Sleeps) >= 3
    /\ \E k \in 1..Len(log) : log[k].ev = "CHILD FETCH FAILED"
    /\ \E u \in ListedBy(RootAnswer.data) :
          web[u].err = "none" /\ IndexShaped(web[u].data)

----------------------------------------------------------------------------
(* parseHTML on its own *)

\* the elements a head is made of: titles (one with no text), description
\* and other meta elements, canonical links (one with no href) and others
HeadElems ==
    { Elem("title", <<>>, <<Text(<<" ", "A", " ">>)>>),
      Elem("title", <<>>, <<Text(<<"B">>)>>),
      Elem("title", <<>>, <<>>),
      Elem("meta", <<Attr("name", "description"), Attr("content", "dA")>>,
           <<>>),
      Elem("meta", <<Attr("name", "description"), Attr("content", "dB")>>,
           <<>>),
      Elem("meta", <<Attr("name", "keywords"), Attr("content", "k")>>, <<>>),
      Elem("link", <<Attr("rel", "canonical"), Attr("href", "cA")>>, <<>>),
      Elem("link", <<Attr("rel", "canonical"), Attr("href", "cB")>>, <<>>),
      Elem("link", <<Attr("rel", "canonical")>>, <<>>),
      Elem("link", <<Attr("rel", "stylesheet"), Attr("href", "s")>>, <<>>) }

\* what a body holds: nothing, or an inline svg with a title of its own
BodyElems ==
    { <<>>,
      <<Elem("svg", <<>>, <<Elem("title", <<>>, <<Text(<<"S">>)>>)>>)>> }

\* the trees html.Parse (line 145) builds for the pages served
Docs ==
    { Elem("html", <<>>, <<Elem("head", <<>>, h), Elem("body", <<>>, b)>>) :
        h \in SeqsUpTo(HeadElems, MaxHead), b \in BodyElems }

NoMeta == [title |-> <<>>, metaDesc |-> "", canonical |-> ""]

InitParse ==
    /\ web = Site(Malformed, Malformed, Malformed)
    /\ InitMain
    /\ \E d \in Docs, e \in BOOLEAN :
          call = [fn |-> "parseHTML", pc |-> "parse", doc |-> d,
                  parseErr |-> e, out |-> NoMeta]

\* lines 145-149: html.Parse; on an error the three fields are empty
parse_Parse ==
    /\ call.fn = "parseHTML" /\ call.pc = "parse"
    /\ call' = [call EXCEPT !.pc = IF call.parseErr THEN "done" ELSE "walk"]
    /\ UNCHANGED discoveryVars
    /\ UNCHANGED poolVars

\* lines 151-193: the walk of the tree, and the return
parse_Walk ==
    /\ call.fn = "parseHTML" /\ call.pc = "walk"
    /\ call' = [call EXCEPT !.pc = "done", !.out = parseHTML(call.doc)]
    /\ UNCHANGED discoveryVars
    /\ UNCHANGED poolVars

SpecParse == InitParse /\ [][parse_Parse \/ parse_Walk]_vars

\* the nodes of a tree in depth-first document order
RECURSIVE Preorder(_)
RECURSIVE PreorderAll(_)
Preorder(n) == <<n>> \o PreorderAll(n.Children)
PreorderAll(cs) ==
    IF cs = <<>> THEN <<>> ELSE Preorder(Head(cs)) \o PreorderAll(Tail(cs))

IsTitle(n) == n.Type = "element" /\ n.Data = "title"
IsDescription(n) ==
    n.Type = "element" /\ n.Data = "meta"
    /\ HasAttr(n.Attr, "name", "description")
IsCanonical(n) ==
    n.Type = "element" /\ n.Data = "link"
    /\ HasAttr(n.Attr, "rel", "canonical")

Matches(doc, P(_)) ==
    LET ns == Preorder(doc) IN SelectSeq(ns, P)

\* the value of attribute k of element n, empty when it has none
AttrOf(n, k) ==
    LET ks == {j \in 1..Len(n.Attr) : n.Attr[j].Key = k} IN
    IF ks = {} THEN ""
    ELSE n.Attr[CHOOSE j \in ks : \A l \in ks : j <= l].Val

TextOf(n) == IF n.Children = <<>> THEN <<>> ELSE n.Children[1].Data

\* the metadata of the first matching elements of doc
FirstMatches(doc) ==
    LET ts == Matches(doc, IsTitle)
        ds == Matches(doc, IsDescription)
        cs == Matches(doc, IsCanonical)
    IN  [title     |-> IF ts = <<>> THEN <<>> ELSE TrimSpace(TextOf(ts[1])),
         metaDesc  |-> IF ds = <<>> THEN "" ELSE AttrOf(ds[1], "content"),
         canonical |-> IF cs = <<>> THEN "" ELSE AttrOf(cs[1], "href")]

Parsed == call.fn = "parseHTML" /\ call.pc = "done" /\ ~call.parseErr

\* C17: parseHTML returns the values of the first matching elements in
\* depth-first document order: the trimmed text of the first title, the
\* content of the first description meta, the href of the first canonical
\* link; later matching elements do not change the result, and a field
\* with no matching element is empty.
C17_FirstMatchReturned == Parsed => call.out = FirstMatches(call.doc)

----------------------------------------------------------------------------
(* The size of the pool *)

Started == {id \in Workers : wk[id].pc # "none"}

\* the page requests that went out and have no answer yet: makeRequest is
\* called at line 204 only, by a worker, which waits for its return
InFlightPages == Cardinality(WorkersAt({"request"}))

\* a site whose list has more entries than there are workers (six times
\* the same page), and one whose list is empty
BusySites ==
    { Site(Index(<<"s1", "s2">>), URLSet(<<"p1", "p1", "p1">>),
           URLSet(<<"p1", "p1", "p1">>)),
      Site(Index(<<"s1">>), FetchErr("network"), Malformed) }

InitBusy == web \in BusySites /\ InitRun

\* the whole run on the sites of BusySites
SpecBusy == InitBusy /\ [][Next]_vars

\* C19: the pool size is fixed.  The workers started are those numbered
\* below the loop counter, which never exceeds workerCount; once the spawn
\* loop is over exactly workerCount workers have been started, whatever the
\* length of the list (the empty one included); a worker that returned
\* stays returned and no worker is started after the loop; and at most
\* workerCount page requests are in flight.
C19_FixedPoolSize ==
    /\ [](/\ i <= workerCount
          /\ Started = {id \in Workers : id < i}
          /\ Cardinality(Started) <= workerCount
          /\ pc \in {"goCloser", "range", "complete"} =>
                Cardinality(Started) = workerCount
          /\ pc \notin {"spawn", "goCloser", "range", "complete"} =>
                Started = {}
          /\ InFlightPages <= workerCount)
    /\ [][/\ \A id \in Workers :
               wk[id].pc = "done" => wk'[id].pc = "done"
          /\ pc # "spawn" => Started' = Started
          /\ fetching' # fetching =>
                \E id \in Started :
                   /\ wk[id].pc = "range" /\ wk'[id].pc = "request"
                   /\ fetching' = BagAdd(fetching, wk'[id].url)]_vars

\* every worker has a page request in flight while a sixth url waits
C19_Witness ==
    /\ InFlightPages = workerCount
    /\ Len(urls) > workerCount
    /\ jobs # <<>>

\* a run on an empty list that started workerCount workers, all returned
C19_WitnessEmpty ==
    /\ pc = "complete" /\ urls = <<>>
    /\ Cardinality(Started) = workerCount
    /\ \A id \in Workers : wk[id].pc = "done"

============================================================================
